---- MODULE Spec2Model ----
(***************************************************************************)
(* GBU Sports Portal backend (src/main.py, src/schemas.py).                *)
(*                                                                         *)
(* The document store is four collections, each a sequence of documents in *)
(* insertion (natural) order.  Every request handler of main.py is one     *)
(* action that reads the clock, performs all of the handler's store calls  *)
(* and produces the HTTP response.  For the overlapping-request analysis   *)
(* the two handlers of the gym flow are also given step by step, one       *)
(* action per store call, run by a pool of workers.                        *)
(*                                                                         *)
(* Requests are those the request models and the record schemas accept     *)
(* (EmailStr emails, plan/purpose/method among the Literal values,         *)
(* amount >= 0), and the database is configured (db is not None).          *)
(*                                                                         *)
(* Python values: None is the empty set and a present optional value v is  *)
(* {v}.  A datetime is a number of hours since an epoch; an ObjectId is a  *)
(* positive integer; str(ObjectId), datetime.isoformat() and the SHA-256   *)
(* hex digest are tagged records, so that a converted value is never equal *)
(* to the value it was converted from.                                     *)
(***************************************************************************)
EXTENDS Integers, Sequences, FiniteSets, TLC

\* ------------------------------------------------------------------ bounds
MaxTime == 1
MaxUsers == 2
MaxMemberships == 2
MaxPayments == 2
MaxMatches == 4
NumWorkers == 2

\* --------------------------------------------------------------- constants
MonthlyDays == 30
QuarterlyDays == 90
OtherDays == 365

VARIABLES
    users,        \* collection "user"
    memberships,  \* collection "gymmembership"
    payments,     \* collection "payment"
    matches,      \* collection "match"
    now,          \* the wall clock, in hours
    resp,         \* the last HTTP exchange: [op, req, code, body]
    inflight,     \* worker -> the request it is in the middle of (step-wise handlers)
    issued,       \* history: email -> the token its registration returned
    seedOnly      \* history: the match collection was written by seed alone

vars == <<users, memberships, payments, matches, now, resp, inflight, issued, seedOnly>>

\* ------------------------------------------------------------ python values
None == {}
Some(v) == {v}
Get(o) == CHOOSE v \in o : TRUE

\* str(ObjectId): the 24-digit hex string of an identifier.
Str(oid) == [kind |-> "hex24", n |-> oid]

\* bson.ObjectId(s): the identifier a well-formed string denotes, None when the
\* constructor raises.
ObjectId(s) == IF s.kind = "hex24" /\ s.n >= 1 THEN Some(s.n) ELSE None

\* datetime.isoformat()
IsoFormat(t) == [iso |-> t]

\* timedelta(days=d), in clock units
timedelta(d) == d * 24

\* now.hour, and now.replace(hour=h): the same day at hour h
Hour(t) == t % 24

ReplaceHour(t, h) == (t - Hour(t)) + h

\* the fields of this program's documents that hold datetime values
DatetimeFields == {"created_at", "updated_at", "start_date", "end_date", "start_time"}

SECRET == "gbu-sports-portal-secret"

hash_password(password, salt) == [sha256 |-> password \o salt]

serialize_doc(doc) ==
    [k \in ((DOMAIN doc) \ {"_id"}) \cup {"id"} |->
        IF k = "id" THEN Str(doc["_id"])
        ELSE IF k \in DatetimeFields /\ doc[k] # None THEN Some(IsoFormat(Get(doc[k])))
        ELSE doc[k]]

\* ------------------------------------------------------------------- store
\* A filter maps field names to the set of values it accepts: {"email": e} is
\* [email |-> {e}] and {"status": {"$in": [a, b]}} is [status |-> {a, b}]; the
\* empty filter accepts every document.
NoFilter == [k \in {} |-> {}]

Matches(d, filter) == \A k \in DOMAIN filter : d[k] \in filter[k]

Matching(coll, filter) == {i \in 1..Len(coll) : Matches(coll[i], filter)}

Lowest(S) == CHOOSE i \in S : \A j \in S : i <= j

\* pymongo find_one(filter): the first document in natural order that matches.
FindOne(coll, filter) ==
    IF Matching(coll, filter) = {} THEN None
    ELSE Some(coll[Lowest(Matching(coll, filter))])

\* find_one(filter, sort=[("created_at", -1)]): the candidates a descending sort
\* by created_at may put first (any document with the greatest created_at).
Latest(coll, filter) ==
    {coll[i] : i \in {i \in Matching(coll, filter) :
                        \A j \in Matching(coll, filter) :
                            Get(coll[j].created_at) <= Get(coll[i].created_at)}}

\* update_one with its filter dropped: every document is written
UpdateOne_AllDocs(coll, oid, fields) ==
    [i \in 1..Len(coll) |->
        [k \in DOMAIN coll[i] \cup DOMAIN fields |->
            IF k \in DOMAIN fields THEN fields[k] ELSE coll[i][k]]]

\* update_one({"_id": oid}, {"$set": fields}): no upsert.
UpdateOne(coll, oid, fields) ==
    [i \in 1..Len(coll) |->
        IF coll[i]._id = oid
        THEN [k \in DOMAIN coll[i] \cup DOMAIN fields |->
                IF k \in DOMAIN fields THEN fields[k] ELSE coll[i][k]]
        ELSE coll[i]]

\* database.create_document(collection, model): stores the model's fields with a
\* fresh identifier and the insertion/update timestamps; returns str(identifier).
NewId(coll) == Len(coll) + 1

create_document(coll, data, t) ==
    Append(coll, data @@ [_id |-> NewId(coll), created_at |-> Some(t), updated_at |-> Some(t)])

\* ----------------------------------------------------------------- schemas
UserSchema(name, email, password_hash, role, phone, is_active) ==
    [name |-> name, email |-> email, password_hash |-> password_hash,
     role |-> role, phone |-> phone, is_active |-> is_active]

GymMembershipSchema(email, plan) ==
    [email |-> email, plan |-> plan, status |-> "pending",
     start_date |-> None, end_date |-> None]

PaymentSchema(email, amount, purpose, method, status, reference) ==
    [email |-> email, amount |-> amount, purpose |-> purpose, method |-> method,
     status |-> status, reference |-> reference]

MatchSchema(sport, team_a, team_b, venue, start_time, status, details) ==
    [sport |-> sport, team_a |-> team_a, team_b |-> team_b, venue |-> venue,
     start_time |-> Some(start_time), status |-> status,
     score_a |-> None, score_b |-> None, details |-> details]

\* ------------------------------------------------------------------ inputs
Emails == {"alice@x.com", "bob@x.com"}
Names == {"Alice", "Al"}
Passwords == {"pw1", "pw2"}
Phones == {None}
WorkerIds == 1..NumWorkers

Idle == [pc |-> "idle"]

Reply(op, req, code, body) == [op |-> op, req |-> req, code |-> code, body |-> body]

Init ==
    /\ users = <<>>
    /\ memberships = <<>>
    /\ payments = <<>>
    /\ matches = <<>>
    /\ now = 0
    /\ resp = Reply("none", [none |-> TRUE], 0, [none |-> TRUE])
    /\ inflight = [w \in WorkerIds |-> Idle]
    /\ issued = [e \in Emails |-> None]
    /\ seedOnly = TRUE

\* -------------------------------------------------------------------- auth
\* the filter {"_id": oid}
ById(oid) == [_id |-> {oid}]

\* the filter {"email": email}
ByEmail(email) == [email |-> {email}]

\* the lookup of register also matching on the name
Registered_ByNameToo(req) == [email |-> {req.email}, name |-> {req.name}]

\* the filter register looks an existing user up with: {"email": req.email}
Registered(req) == [email |-> {req.email}]

\* POST /api/auth/register
register(name, email, password, phone, t) ==
    LET req == [name |-> name, email |-> email, password |-> password, phone |-> phone]
        found == FindOne(users, Registered(req))
        password_hash == hash_password(password, SECRET)
        user == UserSchema(name, email, password_hash, "student", phone, TRUE)
        token == hash_password(email, SECRET)
    IN  /\ now' = t
        /\ IF found # None
           THEN /\ resp' = Reply("register", req, 400, [detail |-> "Email already registered"])
                /\ UNCHANGED <<users, issued>>
           ELSE /\ Len(users) < MaxUsers
                /\ users' = create_document(users, user, t)
                /\ resp' = Reply("register", req, 200,
                                 [id |-> Str(NewId(users)), token |-> token,
                                  email |-> email, name |-> name])
                /\ issued' = [issued EXCEPT ![email] = Some(token)]
        /\ UNCHANGED <<memberships, payments, matches, inflight, seedOnly>>

\* the comparison of login with the secret left out of the hash
CredentialsMatch_NoSecret(u, password) == u.password_hash = hash_password(password, "")

\* expected == hash_password(req.password, SECRET)
CredentialsMatch(u, password) == u.password_hash = hash_password(password, SECRET)

\* POST /api/auth/login
login(email, password, t) ==
    LET req == [email |-> email, password |-> password]
        u == FindOne(users, ByEmail(email))
    IN  /\ now' = t
        /\ resp' = IF u = None
                   THEN Reply("login", req, 401, [detail |-> "Invalid credentials"])
                   ELSE IF ~CredentialsMatch(Get(u), password)
                   THEN Reply("login", req, 401, [detail |-> "Invalid credentials"])
                   ELSE Reply("login", req, 200,
                              [token |-> hash_password(email, SECRET),
                               email |-> email, name |-> Get(u).name])
        /\ UNCHANGED <<users, memberships, payments, matches, inflight, issued, seedOnly>>

\* GET /api/profile
profile(email, t) ==
    LET req == [email |-> email]
        u == FindOne(users, ByEmail(email))
    IN  /\ now' = t
        /\ resp' = IF u = None
                   THEN Reply("profile", req, 404, [detail |-> "User not found"])
                   ELSE Reply("profile", req, 200,
                              serialize_doc([k \in DOMAIN Get(u) \ {"password_hash"} |-> Get(u)[k]]))
        /\ UNCHANGED <<users, memberships, payments, matches, inflight, issued, seedOnly>>

Register ==
    \E t \in now..MaxTime, name \in Names, email \in Emails,
       password \in Passwords, phone \in Phones :
        register(name, email, password, phone, t)

Login == \E t \in now..MaxTime, email \in Emails, password \in Passwords : login(email, password, t)

Profile == \E t \in now..MaxTime, email \in Emails : profile(email, t)

NextAuth == Register \/ Login \/ Profile

AuthSpec == Init /\ [][NextAuth]_vars

\* --------------------------------------------------------- gym membership
Plans == {"monthly", "quarterly", "yearly"}
Amounts == {500}
Purposes == {"gym_membership"}
Methods == {"upi"}
References == {None}

\* the filter with "pending" left out, and with "active" left out
PendingOrActive_ActiveOnly(email) == [email |-> {email}, status |-> {"active"}]

PendingOrActive_PendingOnly(email) == [email |-> {email}, status |-> {"pending"}]

\* the filter {"email": email, "status": {"$in": ["pending", "active"]}}
PendingOrActive(email) == [email |-> {email}, status |-> {"pending", "active"}]

\* serialize_doc(m) if m else None
SerializeOpt(m) == IF m # None THEN Some(serialize_doc(Get(m))) ELSE None

\* the response of create_membership when it has inserted a record
FreshMembership(oid, email, plan) ==
    [id |-> Str(oid), email |-> email, plan |-> plan, status |-> "pending"]

\* POST /api/gym/membership
create_membership(email, plan, t) ==
    LET req == [email |-> email, plan |-> plan]
        existing == FindOne(memberships, PendingOrActive(email))
    IN  /\ now' = t
        /\ IF existing # None
           THEN /\ resp' = Reply("create_membership", req, 200, serialize_doc(Get(existing)))
                /\ UNCHANGED memberships
           ELSE /\ Len(memberships) < MaxMemberships
                /\ memberships' = create_document(memberships, GymMembershipSchema(email, plan), t)
                /\ resp' = Reply("create_membership", req, 200,
                                 FreshMembership(NewId(memberships), email, plan))
        /\ UNCHANGED <<users, payments, matches, inflight, issued, seedOnly>>

\* GET /api/gym/membership
get_membership(email, t) ==
    LET req == [email |-> email]
        found == Latest(memberships, ByEmail(email))
    IN  /\ now' = t
        /\ IF found = {}
           THEN resp' = Reply("get_membership", req, 404, [detail |-> "No membership found"])
           ELSE \E m \in found : resp' = Reply("get_membership", req, 200, serialize_doc(m))
        /\ UNCHANGED <<users, memberships, payments, matches, inflight, issued, seedOnly>>

\* req.reference or f"REF-{int(datetime.now().timestamp())}"
Reference(reference, t) ==
    IF reference # None /\ Get(reference) # "" THEN reference
    ELSE Some("REF-" \o ToString(t * 3600))

\* the window with the quarterly branch missing
DeltaDays_NoQuarterly(plan) == IF plan = "monthly" THEN MonthlyDays ELSE OtherDays

\* the validity window, in days, of a plan
DeltaDays(plan) ==
    IF plan = "monthly" THEN MonthlyDays
    ELSE IF plan = "quarterly" THEN QuarterlyDays
    ELSE OtherDays

\* the "$set" of create_payment for membership m, started at t
Activation(m, t) ==
    [status |-> "active", start_date |-> Some(t),
     end_date |-> Some(t + timedelta(DeltaDays(m.plan)))]

\* the lookup of create_payment with an empty filter
PaidMembership_AnyEmail(email) == NoFilter

\* the membership create_payment looks up: the filter {"email": email}
PaidMembership(email) == [email |-> {email}]

\* POST /api/payments/create
create_payment(email, amount, purpose, method, reference, t) ==
    LET req == [email |-> email, amount |-> amount, purpose |-> purpose,
                method |-> method, reference |-> reference]
        payment == PaymentSchema(email, amount, purpose, method, "success",
                                 Reference(reference, t))
        pay_id == Str(NewId(payments))
        found == Latest(memberships, PaidMembership(email))
    IN  /\ now' = t
        /\ Len(payments) < MaxPayments
        /\ payments' = create_document(payments, payment, t)
        /\ IF found = {}
           THEN /\ UNCHANGED memberships
                /\ resp' = Reply("create_payment", req, 200,
                                 [payment_id |-> pay_id, status |-> "success",
                                  membership |-> None])
           ELSE \E m \in found :
                /\ memberships' = UpdateOne(memberships, m._id, Activation(m, t))
                /\ resp' = Reply("create_payment", req, 200,
                                 [payment_id |-> pay_id, status |-> "success",
                                  membership |->
                                      SerializeOpt(FindOne(memberships', ById(m._id)))])
        /\ UNCHANGED <<users, matches, inflight, issued, seedOnly>>

CreateMembership ==
    \E t \in now..MaxTime, email \in Emails, plan \in Plans : create_membership(email, plan, t)

GetMembership == \E t \in now..MaxTime, email \in Emails : get_membership(email, t)

CreatePayment ==
    \E t \in now..MaxTime, email \in Emails, amount \in Amounts, purpose \in Purposes,
       method \in Methods, reference \in References :
        create_payment(email, amount, purpose, method, reference, t)

NextGym == CreateMembership \/ GetMembership \/ CreatePayment

GymSpec == Init /\ [][NextGym]_vars

\* ----------------------------------------------------------------- matches
Sports == {"cricket", "indoor"}

\* the path identifiers of update requests: the first stored identifier, a
\* well-formed identifier no record has, and a malformed string
MatchIds == {Str(1), Str(MaxMatches + 1), [kind |-> "junk", n |-> 0]}

\* the bodies of update requests: no field, status with score_a, score_b with details
Bodies ==
    {[status |-> None, score_a |-> None, score_b |-> None, details |-> None],
     [status |-> Some("finished"), score_a |-> Some("120/3"), score_b |-> None,
      details |-> None],
     [status |-> None, score_a |-> None, score_b |-> Some("98/7"),
      details |-> Some("Rain delay")]}

\* the JSON null payload (serialize_doc of an absent document)
Null == [null |-> TRUE]

\* the filter {"sport": sport}
BySport(sport) == [sport |-> {sport}]

\* POST /api/matches
create_match(sport, team_a, team_b, venue, start_time, status, details, t) ==
    LET req == [sport |-> sport, team_a |-> team_a, team_b |-> team_b, venue |-> venue,
                start_time |-> start_time, status |-> status, details |-> details]
        match == MatchSchema(sport, team_a, team_b, venue, start_time, status, details)
    IN  /\ now' = t
        /\ Len(matches) < MaxMatches
        /\ matches' = create_document(matches, match, t)
        /\ resp' = Reply("create_match", req, 200, [id |-> Str(NewId(matches))])
        /\ seedOnly' = FALSE
        /\ UNCHANGED <<users, memberships, payments, inflight, issued>>

\* {k: v for k, v in req.model_dump().items() if v is not None}; status is a
\* required field of the stored document (a plain value), the others optional.
Updates(req) ==
    [k \in {k \in DOMAIN req : req[k] # None} |->
        IF k = "status" THEN Get(req[k]) ELSE req[k]]

\* updates["updated_at"] = datetime.now(timezone.utc)
Stamped(updates, t) == updates @@ [updated_at |-> Some(t)]

\* update_match without its early return
NoUpdates_Never(updates) == FALSE

\* if not updates
NoUpdates(updates) == DOMAIN updates = {}

\* PATCH /api/matches/{match_id}
update_match(match_id, status, score_a, score_b, details, t) ==
    LET body == [status |-> status, score_a |-> score_a, score_b |-> score_b,
                 details |-> details]
        req == [match_id |-> match_id, body |-> body]
        oid == ObjectId(match_id)
        updates == Updates(body)
        written == UpdateOne(matches, Get(oid), Stamped(updates, t))
        doc == FindOne(written, ById(Get(oid)))
    IN  /\ now' = t
        /\ IF oid = None
           THEN /\ resp' = Reply("update_match", req, 400, [detail |-> "Invalid match id"])
                /\ UNCHANGED <<matches, seedOnly>>
           ELSE IF NoUpdates(updates)
           THEN /\ resp' = Reply("update_match", req, 200, [updated |-> FALSE])
                /\ UNCHANGED <<matches, seedOnly>>
           ELSE /\ matches' = written
                /\ resp' = Reply("update_match", req, 200,
                                 IF doc = None THEN Null ELSE serialize_doc(Get(doc)))
                /\ seedOnly' = (seedOnly /\ written = matches)
        /\ UNCHANGED <<users, memberships, payments, inflight, issued>>

\* the two sample matches seed inserts for cricket
SeedCricket(coll, t) ==
    create_document(
        create_document(coll,
            MatchSchema("cricket", "GBU Warriors", "Noida Knights", "GBU Cricket Ground",
                        t, "live", Some("Friendly match")), t),
        MatchSchema("cricket", "GBU Titans", "Delhi Dynamos", "GBU Cricket Ground",
                    ReplaceHour(t, (Hour(t) + 2) % 24), "upcoming", None), t)

\* the two sample matches seed inserts for indoor
SeedIndoor(coll, t) ==
    create_document(
        create_document(coll,
            MatchSchema("indoor", "GBU Falcons", "GBU Hawks", "Indoor Stadium",
                        t, "live", Some("Badminton Doubles")), t),
        MatchSchema("indoor", "GBU Lions", "Lucknow Legends", "Indoor Stadium",
                    ReplaceHour(t, (Hour(t) + 3) % 24), "upcoming", Some("Table Tennis")), t)

\* seed testing for any match instead of a match of the sport
SeedNeeded_AnySport(coll, sport) == FindOne(coll, NoFilter) = None

\* whether seed inserts the samples of a sport into coll
SeedNeeded(coll, sport) == FindOne(coll, BySport(sport)) = None

\* POST /api/seed
seed(t) ==
    LET afterCricket == IF SeedNeeded(matches, "cricket") THEN SeedCricket(matches, t)
                        ELSE matches
        afterIndoor == IF SeedNeeded(afterCricket, "indoor") THEN SeedIndoor(afterCricket, t)
                       ELSE afterCricket
    IN  /\ now' = t
        /\ Len(afterIndoor) <= MaxMatches
        /\ matches' = afterIndoor
        /\ resp' = Reply("seed", [none |-> TRUE], 200, [seeded |-> TRUE])
        /\ UNCHANGED <<users, memberships, payments, inflight, issued, seedOnly>>

CreateMatch ==
    \E t \in now..MaxTime, sport \in Sports :
        create_match(sport, "Team A", "Team B", "Ground", t, "upcoming", None, t)

UpdateMatch ==
    \E t \in now..MaxTime, match_id \in MatchIds, b \in Bodies :
        update_match(match_id, b.status, b.score_a, b.score_b, b.details, t)

Seed == \E t \in now..MaxTime : seed(t)

NextMatch == CreateMatch \/ UpdateMatch \/ Seed

MatchSpec == Init /\ [][NextMatch]_vars

\* ------------------------------------------- gym flow, one store call a step
\* Each worker serves one request at a time; requests of different workers
\* interleave between any two store calls.
Respond(w, r) ==
    /\ resp' = r
    /\ inflight' = [inflight EXCEPT ![w] = Idle]

\* create_membership up to its return or to the insert: the lookup
begin_membership(w, email, plan, t) ==
    LET req == [email |-> email, plan |-> plan]
        existing == FindOne(memberships, PendingOrActive(email))
    IN  /\ inflight[w] = Idle
        /\ now' = t
        /\ IF existing # None
           THEN Respond(w, Reply("create_membership", req, 200, serialize_doc(Get(existing))))
           ELSE /\ inflight' = [inflight EXCEPT ![w] = [pc |-> "insert_membership", req |-> req]]
                /\ UNCHANGED resp
        /\ UNCHANGED <<users, memberships, payments, matches, issued, seedOnly>>

\* create_membership from the insert on
insert_membership(w, t) ==
    LET req == inflight[w].req
    IN  /\ inflight[w].pc = "insert_membership"
        /\ now' = t
        /\ Len(memberships) < MaxMemberships
        /\ memberships' = create_document(memberships, GymMembershipSchema(req.email, req.plan), t)
        /\ Respond(w, Reply("create_membership", req, 200,
                            FreshMembership(NewId(memberships), req.email, req.plan)))
        /\ UNCHANGED <<users, payments, matches, issued, seedOnly>>

\* create_payment: the payment's insert
begin_payment(w, email, amount, purpose, method, reference, t) ==
    LET req == [email |-> email, amount |-> amount, purpose |-> purpose,
                method |-> method, reference |-> reference]
        payment == PaymentSchema(email, amount, purpose, method, "success",
                                 Reference(reference, t))
    IN  /\ inflight[w] = Idle
        /\ now' = t
        /\ Len(payments) < MaxPayments
        /\ payments' = create_document(payments, payment, t)
        /\ inflight' = [inflight EXCEPT ![w] =
                            [pc |-> "find_membership", req |-> req,
                             pay_id |-> Str(NewId(payments))]]
        /\ UNCHANGED <<users, memberships, matches, resp, issued, seedOnly>>

\* create_payment: the lookup of the most recent membership
find_membership(w, t) ==
    LET cur == inflight[w]
        found == Latest(memberships, PaidMembership(cur.req.email))
    IN  /\ cur.pc = "find_membership"
        /\ now' = t
        /\ IF found = {}
           THEN Respond(w, Reply("create_payment", cur.req, 200,
                                 [payment_id |-> cur.pay_id, status |-> "success",
                                  membership |-> None]))
           ELSE /\ \E m \in found :
                      inflight' = [inflight EXCEPT ![w] =
                                      [pc |-> "activate_membership", req |-> cur.req,
                                       pay_id |-> cur.pay_id, m |-> m]]
                /\ UNCHANGED resp
        /\ UNCHANGED <<users, memberships, payments, matches, issued, seedOnly>>

\* create_payment: the update of the membership found
activate_membership(w, t) ==
    LET cur == inflight[w]
    IN  /\ cur.pc = "activate_membership"
        /\ now' = t
        /\ memberships' = UpdateOne(memberships, cur.m._id, Activation(cur.m, t))
        /\ inflight' = [inflight EXCEPT ![w] =
                            [pc |-> "refetch_membership", req |-> cur.req,
                             pay_id |-> cur.pay_id, m |-> cur.m]]
        /\ UNCHANGED <<users, payments, matches, resp, issued, seedOnly>>

\* create_payment: the re-read of the membership and the response
refetch_membership(w, t) ==
    LET cur == inflight[w]
    IN  /\ cur.pc = "refetch_membership"
        /\ now' = t
        /\ Respond(w, Reply("create_payment", cur.req, 200,
                            [payment_id |-> cur.pay_id, status |-> "success",
                             membership |->
                                 SerializeOpt(FindOne(memberships, ById(cur.m._id)))]))
        /\ UNCHANGED <<users, memberships, payments, matches, issued, seedOnly>>

BeginMembership ==
    \E w \in WorkerIds, t \in now..MaxTime, email \in Emails, plan \in Plans :
        begin_membership(w, email, plan, t)

InsertMembership == \E w \in WorkerIds, t \in now..MaxTime : insert_membership(w, t)

BeginPayment ==
    \E w \in WorkerIds, t \in now..MaxTime, email \in Emails, amount \in Amounts,
       purpose \in Purposes, method \in Methods, reference \in References :
        begin_payment(w, email, amount, purpose, method, reference, t)

FindMembership == \E w \in WorkerIds, t \in now..MaxTime : find_membership(w, t)

ActivateMembership == \E w \in WorkerIds, t \in now..MaxTime : activate_membership(w, t)

RefetchMembership == \E w \in WorkerIds, t \in now..MaxTime : refetch_membership(w, t)

NextConc ==
    \/ BeginMembership
    \/ InsertMembership
    \/ BeginPayment
    \/ FindMembership
    \/ ActivateMembership
    \/ RefetchMembership

ConcSpec == Init /\ [][NextConc]_vars

\* ------------------------------------------------------------------ claims
LiveMemberships(ms, email) ==
    {i \in 1..Len(ms) : ms[i].email = email /\ ms[i].status \in {"pending", "active"}}

\* C1: in every reachable state, for every email, at most one membership
\* record with that email has status pending or active, whatever the
\* interleaving of create-membership and create-payment requests.
C1_AtMostOneLiveMembership ==
    \A e \in Emails : Cardinality(LiveMemberships(memberships, e)) <= 1

OfEmail(ms, email) == {i \in 1..Len(ms) : ms[i].email = email}

\* what a create-membership step must satisfy
C2_Step ==
    resp'.op = "create_membership" =>
        LET e == resp'.req.email
        IN  /\ Len(memberships') > Len(memberships) =>
                LiveMemberships(memberships, e) = {}
            /\ (/\ resp.op = "create_membership"
                /\ resp.req.email = e
                /\ resp.body.status = "pending")
               => /\ resp'.body.id = resp.body.id
                  /\ resp'.body.email = resp.body.email
                  /\ resp'.body.plan = resp.body.plan
                  /\ resp'.body.status = resp.body.status
                  /\ memberships' = memberships
                  /\ Cardinality(OfEmail(memberships', e)) = 1

\* C2: two consecutive create-membership calls for an email whose membership
\* stays pending return the same record (identifier, email, plan, status) and
\* leave exactly one membership stored for the email; and a create-membership
\* call inserts a record only when no membership of the email is pending or
\* active.
C2_CreateMembershipIdempotent == [][C2_Step]_vars

\* C2, reached: a create-membership call answered with the stored pending
\* record (the short-circuit of a repeated call).
C2_Repeated ==
    /\ resp.op = "create_membership"
    /\ "created_at" \in DOMAIN resp.body
    /\ resp.body.status = "pending"
    /\ Cardinality(OfEmail(memberships, resp.req.email)) = 1

\* the step create-membership(e, monthly) takes right after a create-payment(e)
\* that activated e's monthly membership
C3_SecondCall ==
    /\ resp.op = "create_payment"
    /\ resp.body.membership # None
    /\ resp'.op = "create_membership"
    /\ resp'.req = [email |-> resp.req.email, plan |-> "monthly"]
    /\ Get(resp.body.membership).plan = "monthly"

\* C3 as stated: in create-membership(e, monthly) -> create-payment(e) ->
\* create-membership(e, monthly) the second create-membership call creates a
\* new pending record, so that two records exist for e.
C3_Original ==
    [][C3_SecondCall =>
          /\ Len(memberships') = Len(memberships) + 1
          /\ resp'.body.status = "pending"
          /\ Cardinality(OfEmail(memberships', resp'.req.email)) = 2]_vars

\* C3 amended: in that sequence the second create-membership call returns the
\* existing, now active, record and creates nothing: one record exists for e.
C3_ReturnsActiveRecord ==
    [][C3_SecondCall =>
          /\ memberships' = memberships
          /\ resp'.body.status = "active"
          /\ resp'.body.id = Get(resp.body.membership).id
          /\ Cardinality(OfEmail(memberships', resp'.req.email)) = 1]_vars

\* C3, reached: a create-membership call answered with an active record.
C3_AfterActivation ==
    /\ resp.op = "create_membership"
    /\ resp.req.plan = "monthly"
    /\ resp.body.status = "active"
    /\ resp.body.plan = "monthly"

\* the days of validity the claim names for a plan
C4_Days(plan) == IF plan = "monthly" THEN 30 ELSE IF plan = "quarterly" THEN 90 ELSE 365

\* what a create-payment step for an email with a pending or active membership must satisfy
C4_Step ==
    resp'.op = "create_payment" =>
        \A i \in LiveMemberships(memberships, resp'.req.email) :
            /\ Len(memberships') = Len(memberships)
            /\ memberships'[i]._id = memberships[i]._id
            /\ memberships'[i].status = "active"
            /\ memberships'[i].start_date # None
            /\ memberships'[i].end_date # None
            /\ Get(memberships'[i].end_date) - Get(memberships'[i].start_date)
                   = C4_Days(memberships[i].plan) * 24
            /\ resp'.body.membership = Some(serialize_doc(memberships'[i]))
            /\ Get(Get(resp'.body.membership).end_date).iso
                   - Get(Get(resp'.body.membership).start_date).iso
                   = C4_Days(memberships[i].plan) * 24

C5_Step ==
    (resp'.op = "create_payment" /\ OfEmail(memberships, resp'.req.email) = {}) =>
        /\ resp'.code = 200
        /\ resp'.body.status = "success"
        /\ resp'.body.membership = None
        /\ Len(payments') = Len(payments) + 1
        /\ SubSeq(payments', 1, Len(payments)) = payments
        /\ payments'[Len(payments')].status = "success"
        /\ payments'[Len(payments')].email = resp'.req.email
        /\ memberships' = memberships

UsersOf(us, email) == {i \in 1..Len(us) : us[i].email = email}

\* what a register step must satisfy
C6_Step ==
    resp'.op = "register" =>
        LET e == resp'.req.email
        IN  /\ UsersOf(users, e) = {} =>
                /\ resp'.code = 200
                /\ Len(users') = Len(users) + 1
                /\ users'[Len(users')].email = e
            /\ UsersOf(users, e) # {} => resp'.code = 400 /\ users' = users
            /\ (resp.op = "register" /\ resp.code = 200 /\ resp.req.email = e) =>
                /\ resp'.code = 400
                /\ users' = users
                /\ \A i \in UsersOf(users', e) :
                      /\ users'[i].name = resp.req.name
                      /\ users'[i].password_hash = hash_password(resp.req.password, SECRET)

\* C6: registering the same email twice in sequence yields success and then a
\* conflict (400) whatever name and password the second call supplies, and the
\* failed call leaves the user collection unchanged: the stored record and
\* password hash remain those of the first registration.
C6_RegisterTwice == [][C6_Step]_vars

\* C6, reached: a registration refused although it names another name and
\* another password than the stored ones.
C6_Conflict ==
    /\ resp.op = "register"
    /\ resp.code = 400
    /\ \A i \in UsersOf(users, resp.req.email) :
          /\ users[i].name # resp.req.name
          /\ users[i].password_hash # hash_password(resp.req.password, SECRET)

\* C7: login(email, password) succeeds iff a user with exactly that email is
\* stored and the hash of the password with the fixed secret equals that
\* user's stored password_hash; every other login fails with 401 and no other
\* error; a successful login returns the token the registration returned.
C7_LoginIffHashMatches ==
    resp.op = "login" =>
        LET e == resp.req.email
            ok == \E i \in UsersOf(users, e) :
                      users[i].password_hash = hash_password(resp.req.password, SECRET)
        IN  /\ resp.code = 200 <=> ok
            /\ resp.code # 200 => resp.code = 401
            /\ resp.code = 200 => issued[e] = Some(resp.body.token)

\* C7, reached: a successful login with two users stored.
C7_LoggedIn == resp.op = "login" /\ resp.code = 200 /\ Len(users) = 2

EmptyBody(b) == \A k \in DOMAIN b : b[k] = None

\* C8 as stated: a PATCH that supplies none of status, score_a, score_b,
\* details never mutates stored state and returns {updated:false}, for every
\* match identifier given in the path.
C8_Original ==
    [][(resp'.op = "update_match" /\ EmptyBody(resp'.req.body)) =>
          /\ UNCHANGED <<users, memberships, payments, matches>>
          /\ resp'.code = 200
          /\ resp'.body = [updated |-> FALSE]]_vars

\* C8 amended: such a PATCH never mutates stored state; it returns
\* {updated:false} for every well-formed identifier, and fails with 400 (bad
\* request) for a malformed one.
C8_EmptyPatch ==
    [][(resp'.op = "update_match" /\ EmptyBody(resp'.req.body)) =>
          /\ UNCHANGED <<users, memberships, payments, matches>>
          /\ IF resp'.req.match_id.kind = "hex24"
             THEN resp'.code = 200 /\ resp'.body = [updated |-> FALSE]
             ELSE resp'.code = 400]_vars

\* C8, reached: an empty PATCH of a stored match answered {updated:false}.
C8_NotUpdated ==
    /\ resp.op = "update_match"
    /\ EmptyBody(resp.req.body)
    /\ resp.body = [updated |-> FALSE]
    /\ \E i \in 1..Len(matches) : Str(matches[i]._id) = resp.req.match_id

OfSport(ms, sport) == {i \in 1..Len(ms) : ms[i].sport = sport}

\* what a seed step must satisfy
C9_Step ==
    resp'.op = "seed" =>
        /\ Len(matches') >= Len(matches)
        /\ SubSeq(matches', 1, Len(matches)) = matches
        /\ \A sport \in Sports :
              LET added == {i \in OfSport(matches', sport) : i > Len(matches)}
              IN  IF OfSport(matches, sport) # {}
                  THEN added = {}
                  ELSE /\ Cardinality(added) = 2
                       /\ Cardinality({i \in added : matches'[i].status = "live"}) = 1
                       /\ Cardinality({i \in added : matches'[i].status = "upcoming"}) = 1
        /\ (\A sport \in Sports : OfSport(matches, sport) # {}) => matches' = matches

\* the match collection while seed alone has written it
C9_Seeded ==
    seedOnly =>
        \/ matches = <<>>
        \/ /\ Len(matches) = 4
           /\ \A sport \in Sports :
                 /\ Cardinality(OfSport(matches, sport)) = 2
                 /\ Cardinality({i \in OfSport(matches, sport) : matches[i].status = "live"}) = 1
                 /\ Cardinality({i \in OfSport(matches, sport) : matches[i].status = "upcoming"}) = 1

\* C9: seed inserts a sport's two sample matches (one live, one upcoming)
\* only if no match of that sport is stored; after any sequence of seed calls
\* from an empty collection it holds exactly two cricket and two indoor
\* matches, one live and one upcoming per sport; a seed call made when both
\* sports have a match changes nothing.
C9_SeedIdempotent == [](C9_Seeded) /\ [][C9_Step]_vars

\* C9, reached: seed answered with the four samples stored and nothing else
\* written.
C9_AfterSeed == resp.op = "seed" /\ seedOnly /\ Len(matches) = 4

\* what an update-match step with a well-formed identifier and a non-empty body must satisfy
C10_Step ==
    (/\ resp'.op = "update_match"
     /\ resp'.req.match_id.kind = "hex24"
     /\ ~EmptyBody(resp'.req.body)) =>
        LET body == resp'.req.body
            supplied == {k \in DOMAIN body : body[k] # None}
            hit == {i \in 1..Len(matches) : Str(matches[i]._id) = resp'.req.match_id}
        IN  /\ UNCHANGED <<users, memberships, payments>>
            /\ Len(matches') = Len(matches)
            /\ \A i \in 1..Len(matches) :
                  IF i \in hit
                  THEN /\ DOMAIN matches'[i] = DOMAIN matches[i]
                       /\ \A k \in DOMAIN matches[i] \ (supplied \cup {"updated_at"}) :
                             matches'[i][k] = matches[i][k]
                       /\ \A k \in supplied \ {"status"} : matches'[i][k] = body[k]
                       /\ "status" \in supplied => matches'[i].status = Get(body.status)
                       /\ matches'[i].updated_at = Some(now')
                  ELSE matches'[i] = matches[i]
            /\ hit = {} => matches' = matches

\* C10: an update with a well-formed identifier and a non-empty subset of
\* {status, score_a, score_b, details} changes only the supplied fields and
\* updated_at of the matching record; its other fields, every other match and
\* every other collection are unchanged; when no record has the identifier
\* the update creates no record and leaves all stored state unchanged.
C10_UpdateOnlySupplied == [][C10_Step]_vars

\* C10, reached: an update answered with the updated record while another
\* match is stored.
C10_Updated ==
    /\ resp.op = "update_match"
    /\ ~EmptyBody(resp.req.body)
    /\ "id" \in DOMAIN resp.body
    /\ Len(matches) >= 2

====
